---- MODULE Spec2Model ----
(***************************************************************************)
(* Franka_selenium: the UI Command Driver (utils/robot_commands.py) and    *)
(* the Network Readiness Checker (utils/network_manager.py).               *)
(*                                                                         *)
(* Python values are written as strings: "True", "False", "None" are the   *)
(* value a call returned, "raised" says that the call ended with an        *)
(* exception reaching its caller, "none" that no value is there yet.       *)
(***************************************************************************)
EXTENDS Integers, Sequences, FiniteSets, TLC

VARIABLES
    op,        \* the public operation called last ("none" before the first call)
    pc,        \* position in the operation's script, 0 when no call is running
    args,      \* arguments of the call: speed, force, load, timeout, task
    polls,     \* loop index i of the running wait_for_task_completion
    log,       \* sub-steps this call has run to their return, in order
    last,      \* how the most recent sub-step of this call went
    touched,   \* TRUE once this call has looked up or used a UI element
    result,    \* what the call returned
    lastShape, \* kinds of sub-steps of the last successful gripper_open / gripper_close
    seen,      \* what the latest poll of an observed wait_for_task_completion read
    missed,    \* TRUE once a click_element_robust of this call returned False
    iface,     \* text `ip addr show <interface>` prints for the interface
    addCount,  \* number of `sudo ip addr add` commands issued so far
    lastCall,  \* the NetworkManager method called last
    lastCmd,   \* outcome of the inspection / probe command of that call
    lastCheck, \* what configure_network's own check_network_configured returned
    lastAdd,   \* outcome of the add command of that call, if it issued one
    runs,      \* number of commands that call handed to subprocess.run
    netRet     \* what the NetworkManager method returned

uiVars == <<op, pc, args, polls, log, last, touched, result, lastShape, seen, missed>>

netVars == <<iface, addCount, lastCall, lastCmd, lastCheck, lastAdd, runs, netRet>>

vars == <<op, pc, args, polls, log, last, touched, result, lastShape, seen, missed,
          iface, addCount, lastCall, lastCmd, lastCheck, lastAdd, runs, netRet>>

(***************************************************************************)
(* Bounds and input sets                                                   *)
(***************************************************************************)

\* largest timeout argument of a direct wait_for_task_completion call
MaxTimeout == 2

\* largest number of buttons the Continue container holds
MaxButtons == 2

\* longest text the interface inspection prints
MaxOut == 3

\* most `ip addr add` commands one run issues
MaxAdd == 2

\* timeout of the leading wait of the composite operations
LeadTimeout == 10

\* default timeout of wait_for_task_completion
DefaultTimeout == 30

Speeds == {9, 10, 100, 101}

Forces == {19, 20, 100, 101, 150}

Loads == {9, 10, 1000, 1001}

Composites == {"gripper_open", "gripper_close", "configure_gripper_open", "configure_gripper_close"}

SubSteps == {"select", "exec", "confirm", "ready", "icon", "continue",
             "set_speed", "set_force", "set_load", "wait"}

Tasks == {"Gripper_open", "Gripper_close"}

(***************************************************************************)
(* Helpers of the selenium wrapper                                         *)
(***************************************************************************)

\* try_multiple_locators: the candidates are tried in listed order and the first
\* one that resolves is returned; 0 stands for None (nothing resolved).
RECURSIVE TryFrom(_, _, _)
TryFrom(i, n, resolving) ==
    IF i > n THEN 0
    ELSE IF i \in resolving THEN i
    ELSE TryFrom(i + 1, n, resolving)

try_multiple_locators(n, resolving) == TryFrom(1, n, resolving)

\* what click_element_robust hands back: it clicked, or both of its clicks failed
ClickResults == {"True", "False"}

(***************************************************************************)
(* Sub-steps: the value each returns, from what the page does              *)
(***************************************************************************)

Outcome(ret, why, n, click, touch) ==
    [ret |-> ret, why |-> why, n |-> n, click |-> click, touch |-> touch, tries |-> <<>>]

\* the buttons a container may hold: text, is_displayed(), is_enabled(), and how
\* button.click() and the execute_script click end ("ok" or "raise")
Button(text, displayed, enabled, direct, js) ==
    [text |-> text, displayed |-> displayed, enabled |-> enabled, direct |-> direct, js |-> js]

NoButton == Button("", FALSE, FALSE, "-", "-")

\* one thing a sub-step did with the candidate at position idx: a find_element
\* ("find"), a click_element_robust ("robust"), a button.click() ("direct") or
\* an execute_script click ("js"), and whether it went through
Try(idx, how, ok, button) == [idx |-> idx, how |-> how, ok |-> ok, button |-> button]

\* the text locators of select_task_from_list, in listed order; `hits` are the
\* ones for which find_element returns an element, the others raise
RECURSIVE SelectFrom(_, _, _, _)
SelectFrom(i, hits, click, tried) ==
    IF i > 2 THEN [Outcome("False", "notask", 0, "-", TRUE) EXCEPT !.tries = tried]
    ELSE IF i \in hits
         THEN [Outcome("True", "clicked", i, click, TRUE) EXCEPT
                   !.tries = tried \o << Try(i, "find", TRUE, NoButton),
                                         Try(i, "robust", click = "True", NoButton) >>]
    ELSE SelectFrom(i + 1, hits, click, Append(tried, Try(i, "find", FALSE, NoButton)))

\* select_task_from_list that leaves out the exact-text locator
select_task_from_list_ContainsOnly(task_name, containers, hits, click) ==
    IF try_multiple_locators(2, containers) = 0
    THEN Outcome("False", "nocontainer", 0, "-", TRUE)
    ELSE SelectFrom(2, hits, click, <<>>)

select_task_from_list(task_name, containers, hits, click) ==
    IF try_multiple_locators(2, containers) = 0
    THEN Outcome("False", "nocontainer", 0, "-", TRUE)
    ELSE SelectFrom(1, hits, click, <<>>)

\* click_execution_button that hands back what click_element_robust returned
click_execution_button_ChecksClick(resolving, click) ==
    LET execution_button == try_multiple_locators(3, resolving) IN
    IF execution_button # 0
    THEN Outcome(click, "clicked", execution_button, click, TRUE)
    ELSE Outcome("False", "notfound", 0, "-", TRUE)

click_execution_button(resolving, click) ==
    LET execution_button == try_multiple_locators(3, resolving) IN
    IF execution_button # 0
    THEN Outcome("True", "clicked", execution_button, click, TRUE)
    ELSE Outcome("False", "notfound", 0, "-", TRUE)

click_confirm_button(resolving, click) ==
    LET confirm_button == try_multiple_locators(2, resolving) IN
    IF confirm_button # 0
    THEN Outcome("True", "clicked", confirm_button, click, TRUE)
    ELSE Outcome("False", "notfound", 0, "-", TRUE)

click_task_icon_for_config(resolving, click) ==
    LET icon_element == try_multiple_locators(7, resolving) IN
    IF icon_element # 0
    THEN Outcome("True", "clicked", icon_element, click, TRUE)
    ELSE Outcome("False", "notfound", 0, "-", TRUE)

\* WebDriverWait(...).until(...) of wait_for_ready: it hands back the element, or
\* raises TimeoutException, or lets another driver exception through
UntilOutcomes == {"element", "timeout", "error"}

wait_for_ready(until) ==
    CASE until = "element" -> Outcome("True", "ready", 0, "-", TRUE)
      [] until = "timeout" -> Outcome("False", "timeout", 0, "-", TRUE)
      [] until = "error"   -> Outcome("raised", "error", 0, "-", TRUE)
      [] OTHER             -> Outcome("None", "falsy", 0, "-", TRUE)

\* visible texts of the buttons the Continue container may hold
ButtonTexts == {"Continue", " CONTINUE ", "Cancel"}

\* button.text.strip().lower()
StripLower(t) ==
    CASE t = "Continue"   -> "continue"
      [] t = " CONTINUE " -> "continue"
      [] t = "Cancel"     -> "cancel"
      [] OTHER            -> t

\* a text test that every button passes
HasContinue_Any(t) == TRUE

\* "continue" in button_text
HasContinue(t) == t \in {"continue"}

ButtonSet ==
    { Button("Continue", TRUE, TRUE, "ok", "ok"),
      Button(" CONTINUE ", TRUE, TRUE, "raise", "ok"),
      Button("Continue", TRUE, TRUE, "raise", "raise"),
      Button("Continue", FALSE, TRUE, "ok", "ok"),
      Button("Continue", TRUE, FALSE, "ok", "ok"),
      Button("Cancel", TRUE, TRUE, "ok", "ok") }

ButtonLists == UNION { [1..n -> ButtonSet] : n \in 0..MaxButtons }

\* the scan of click_continue_button over the container's buttons, from button i
RECURSIVE ContinueFrom(_, _, _)
ContinueFrom(i, buttons, tried) ==
    IF i > Len(buttons)
    THEN [Outcome("False", "nobutton", 0, "-", TRUE) EXCEPT !.tries = tried]
    ELSE LET button == buttons[i] IN
         IF HasContinue(StripLower(button.text)) /\ button.displayed /\ button.enabled
         THEN IF button.direct = "ok"
              THEN [Outcome("True", "direct", i, "-", TRUE) EXCEPT
                        !.tries = Append(tried, Try(i, "direct", TRUE, button))]
              ELSE IF button.js = "ok"
              THEN [Outcome("True", "js", i, "-", TRUE) EXCEPT
                        !.tries = tried \o << Try(i, "direct", FALSE, button),
                                              Try(i, "js", TRUE, button) >>]
              ELSE ContinueFrom(i + 1, buttons,
                                tried \o << Try(i, "direct", FALSE, button),
                                            Try(i, "js", FALSE, button) >>)
         ELSE ContinueFrom(i + 1, buttons, tried)

click_continue_button(container, buttons) ==
    IF ~container THEN Outcome("False", "nocontainer", 0, "-", TRUE)
    ELSE ContinueFrom(1, buttons, <<>>)

\* what typing into a located field ends with
TypingOutcomes == {"ok", "raise"}

\* set_speed_value without its range test
set_speed_value_NoRange(s, field, typing) ==
    IF ~field THEN Outcome("False", "nofield", 0, "-", TRUE)
    ELSE IF typing = "ok" THEN Outcome("True", "typed", s, "-", TRUE)
    ELSE Outcome("False", "error", 0, "-", TRUE)

set_speed_value(s, field, typing) ==
    IF ~(10 <= s /\ s <= 100) THEN Outcome("False", "range", 0, "-", FALSE)
    ELSE IF ~field THEN Outcome("False", "nofield", 0, "-", TRUE)
    ELSE IF typing = "ok" THEN Outcome("True", "typed", s, "-", TRUE)
    ELSE Outcome("False", "error", 0, "-", TRUE)

set_force_value(f, field, typing) ==
    IF ~field THEN Outcome("False", "nofield", 0, "-", TRUE)
    ELSE IF typing = "ok" THEN Outcome("True", "typed", f, "-", TRUE)
    ELSE Outcome("False", "error", 0, "-", TRUE)

set_load_value(l, field, typing) ==
    IF ~field THEN Outcome("False", "nofield", 0, "-", TRUE)
    ELSE IF typing = "ok" THEN Outcome("True", "typed", l, "-", TRUE)
    ELSE Outcome("False", "error", 0, "-", TRUE)

\* class attribute of the execution trigger ("None": the attribute is absent)
TriggerClasses == {"None", "", "btn run", "btn stop", "btn STOP"}

\* visible text of the execution trigger
TriggerTexts == {"", "Run", "Stop", "STOP"}

\* execution_button.text.lower()
Lower(t) ==
    CASE t = "Run"  -> "run"
      [] t = "Stop" -> "stop"
      [] t = "STOP" -> "stop"
      [] OTHER      -> t

\* "stop" in s
HasStop(s) == s \in {"stop", "btn stop"}

\* what one poll of wait_for_task_completion sees: whether the Ready text is
\* found, which trigger locators resolve, the trigger's class and text
Observations ==
    [ready : BOOLEAN, trig : SUBSET (1..2), cls : TriggerClasses, txt : TriggerTexts]

\* no poll made yet
NoObs == [ready |-> FALSE, trig |-> {}, cls |-> "None", txt |-> ""]

\* a loop body that returns True as soon as the Ready text is there
PollCompletes_ReadyOnly(obs) == obs.ready

\* a loop body that takes an unresolved trigger for a finished task
PollCompletes_NoTrigger(obs) ==
    IF ~obs.ready THEN FALSE
    ELSE LET execution_button == try_multiple_locators(2, obs.trig)
             button_classes == IF obs.cls = "None" THEN "" ELSE obs.cls
             button_text == Lower(obs.txt)
         IN  IF execution_button # 0
             THEN ~HasStop(button_classes) /\ ~HasStop(button_text)
             ELSE TRUE

\* range(timeout * 2) with one iteration too many
PollLimit_OneMore(t) == t * 2 + 1

\* range(timeout * 2): the number of iterations of the loop
PollLimit(t) == t * 2

\* one iteration of the loop of wait_for_task_completion: TRUE when it returns True
PollCompletes(obs) ==
    IF ~obs.ready THEN FALSE
    ELSE LET execution_button == try_multiple_locators(2, obs.trig)
             button_classes == IF obs.cls = "None" THEN "" ELSE obs.cls
             button_text == Lower(obs.txt)
         IN  IF execution_button # 0
             THEN ~HasStop(button_classes) /\ ~HasStop(button_text)
             ELSE FALSE

(***************************************************************************)
(* Composite operations: the script of sub-steps of each                   *)
(***************************************************************************)

Step(k, task, v, lead) == [k |-> k, task |-> task, v |-> v, lead |-> lead]

gripper_open_steps ==
    << Step("select", "Gripper_open", 0, FALSE),
       Step("exec", "", 0, FALSE),
       Step("confirm", "", 0, FALSE),
       Step("wait", "", DefaultTimeout, FALSE) >>

\* gripper_close that gives up when its leading wait times out
gripper_close_steps_StrictWait ==
    << Step("wait", "", LeadTimeout, FALSE),
       Step("select", "Gripper_close", 0, FALSE),
       Step("exec", "", 0, FALSE),
       Step("confirm", "", 0, FALSE),
       Step("wait", "", DefaultTimeout, FALSE) >>

gripper_close_steps ==
    << Step("wait", "", LeadTimeout, TRUE),
       Step("select", "Gripper_close", 0, FALSE),
       Step("exec", "", 0, FALSE),
       Step("confirm", "", 0, FALSE),
       Step("wait", "", DefaultTimeout, FALSE) >>

\* configure_gripper_open that sets the speed before it leaves the width tab
configure_gripper_open_steps_SpeedFirst(s) ==
    << Step("wait", "", LeadTimeout, TRUE),
       Step("select", "Gripper_open", 0, FALSE),
       Step("icon", "", 0, FALSE),
       Step("set_speed", "", s, FALSE),
       Step("continue", "", 0, FALSE),
       Step("continue", "", 0, FALSE) >>

configure_gripper_open_steps(s) ==
    << Step("wait", "", LeadTimeout, TRUE),
       Step("select", "Gripper_open", 0, FALSE),
       Step("icon", "", 0, FALSE),
       Step("continue", "", 0, FALSE),
       Step("set_speed", "", s, FALSE),
       Step("continue", "", 0, FALSE) >>

\* configure_gripper_close with the load set on the force tab and the force on
\* the load tab
configure_gripper_close_steps_LoadFirst(s, f, l) ==
    << Step("wait", "", LeadTimeout, TRUE),
       Step("select", "Gripper_close", 0, FALSE),
       Step("icon", "", 0, FALSE),
       Step("continue", "", 0, FALSE),
       Step("set_speed", "", s, FALSE),
       Step("continue", "", 0, FALSE),
       Step("set_load", "", l, FALSE),
       Step("continue", "", 0, FALSE),
       Step("set_force", "", f, FALSE),
       Step("continue", "", 0, FALSE) >>

configure_gripper_close_steps(s, f, l) ==
    << Step("wait", "", LeadTimeout, TRUE),
       Step("select", "Gripper_close", 0, FALSE),
       Step("icon", "", 0, FALSE),
       Step("continue", "", 0, FALSE),
       Step("set_speed", "", s, FALSE),
       Step("continue", "", 0, FALSE),
       Step("set_force", "", f, FALSE),
       Step("continue", "", 0, FALSE),
       Step("set_load", "", l, FALSE),
       Step("continue", "", 0, FALSE) >>

\* the validation without its check of the force
ParamsValid_NoForce(s, f, l) ==
    /\ 10 <= s /\ s <= 100
    /\ 10 <= l /\ l <= 1000

\* the validation with the bounds themselves rejected
ParamsValid_Exclusive(s, f, l) ==
    /\ 10 < s /\ s < 100
    /\ 20 < f /\ f < 100
    /\ 10 < l /\ l < 1000

\* the parameter validation at the head of configure_gripper_close
ParamsValid(s, f, l) ==
    /\ 10 <= s /\ s <= 100
    /\ 20 <= f /\ f <= 100
    /\ 10 <= l /\ l <= 1000

\* composite operations whose body runs inside try / except Exception
Guarded == {"configure_gripper_open", "configure_gripper_close"}

\* the script of operation o with arguments a; a sub-step called on its own is
\* a script of that one step
Script(o, a) ==
    CASE o = "gripper_open"            -> gripper_open_steps
      [] o = "gripper_close"           -> gripper_close_steps
      [] o = "configure_gripper_open"  -> configure_gripper_open_steps(a.speed)
      [] o = "configure_gripper_close" -> configure_gripper_close_steps(a.speed, a.force, a.load)
      [] o = "select"                  -> << Step("select", a.task, 0, FALSE) >>
      [] o = "set_speed"               -> << Step("set_speed", "", a.speed, FALSE) >>
      [] o = "set_force"               -> << Step("set_force", "", a.force, FALSE) >>
      [] o = "set_load"                -> << Step("set_load", "", a.load, FALSE) >>
      [] o = "wait"                    -> << Step("wait", "", a.timeout, FALSE) >>
      [] OTHER                         -> << Step(o, "", 0, FALSE) >>

\* a composite that goes on to its next sub-step whatever the last one returned
Control_NoAbort(o, a, i, ret) ==
    IF o \in SubSteps THEN [pc |-> 0, result |-> ret]
    ELSE IF i = Len(Script(o, a)) THEN [pc |-> 0, result |-> IF ret = "True" THEN "True" ELSE "False"]
    ELSE [pc |-> i + 1, result |-> "none"]

\* where a call goes once its sub-step at position i returned ret: `if not
\* step(): return False` in a composite, the step's own value in a direct call
Control(o, a, i, ret) ==
    IF o \in SubSteps THEN [pc |-> 0, result |-> ret]
    ELSE IF ret = "raised"
         THEN [pc |-> 0, result |-> IF o \in Guarded THEN "False" ELSE "raised"]
    ELSE IF ret # "True" /\ ~Script(o, a)[i].lead THEN [pc |-> 0, result |-> "False"]
    ELSE IF i = Len(Script(o, a)) THEN [pc |-> 0, result |-> "True"]
    ELSE [pc |-> i + 1, result |-> "none"]

(***************************************************************************)
(* The driver: one call at a time, one sub-step per step                   *)
(***************************************************************************)

Args(s, f, l, t, task) == [speed |-> s, force |-> f, load |-> l, timeout |-> t, task |-> task]

NoArgs == Args(0, 0, 0, 0, "")

NoStep == [k |-> "-", why |-> "-", n |-> 0, click |-> "-", tries |-> <<>>]

Kinds(lg) == [i \in 1..Len(lg) |-> lg[i].k]

\* the call is at a sub-step of kind k
At(k) == pc > 0 /\ Script(op, args)[pc].k = k

\* operation o with arguments a, at position i of its script with log lg, gets
\* outcome r from the sub-step at that position
RunStep(o, a, i, lg, tch, r) ==
    LET step == Script(o, a)[i]
        c == Control(o, a, i, r.ret)
        lg2 == Append(lg, [k |-> step.k, task |-> step.task, v |-> step.v, ret |-> r.ret])
    IN  /\ op' = o
        /\ args' = a
        /\ log' = lg2
        /\ last' = [k |-> step.k, why |-> r.why, n |-> r.n, click |-> r.click, tries |-> r.tries]
        /\ touched' = (tch \/ r.touch)
        /\ missed' = ((i > 1 /\ missed) \/ r.click = "False")
        /\ polls' = 0
        /\ pc' = c.pc
        /\ result' = c.result
        /\ lastShape' = IF c.result = "True" /\ o \in DOMAIN lastShape
                        THEN [lastShape EXCEPT ![o] = Kinds(lg2)]
                        ELSE lastShape
        /\ UNCHANGED netVars

\* the sub-step of kind k as the current step of the running composite operation
Inside(k, r) == At(k) /\ RunStep(op, args, pc, log, touched, r) /\ UNCHANGED seen

\* the sub-step of kind k called on its own with arguments a
Direct(k, a, r) == pc = 0 /\ RunStep(k, a, 1, <<>>, FALSE, r) /\ UNCHANGED seen

\* a call of composite operation o starts
Begin(o, a) ==
    /\ pc = 0
    /\ op' = o
    /\ args' = a
    /\ pc' = 1
    /\ polls' = 0
    /\ log' = <<>>
    /\ last' = NoStep
    /\ touched' = FALSE
    /\ result' = "none"
    /\ seen' = NoObs
    /\ missed' = FALSE
    /\ UNCHANGED lastShape
    /\ UNCHANGED netVars

\* a call of operation o returns False before its first sub-step
Reject(o, a) ==
    /\ pc = 0
    /\ op' = o
    /\ args' = a
    /\ pc' = 0
    /\ polls' = 0
    /\ log' = <<>>
    /\ last' = NoStep
    /\ touched' = FALSE
    /\ result' = "False"
    /\ seen' = NoObs
    /\ missed' = FALSE
    /\ UNCHANGED lastShape
    /\ UNCHANGED netVars

gripper_open == Begin("gripper_open", NoArgs)

gripper_close == Begin("gripper_close", NoArgs)

configure_gripper_open ==
    \E s \in Speeds : Begin("configure_gripper_open", Args(s, 0, 0, 0, ""))

configure_gripper_close ==
    \E s \in Speeds, f \in Forces, l \in Loads :
        IF ParamsValid(s, f, l)
        THEN Begin("configure_gripper_close", Args(s, f, l, 0, ""))
        ELSE Reject("configure_gripper_close", Args(s, f, l, 0, ""))

select_task_from_list_step ==
    \E containers \in SUBSET (1..2), hits \in SUBSET (1..2), click \in ClickResults :
        \/ Inside("select", select_task_from_list(Script(op, args)[pc].task, containers, hits, click))
        \/ \E t \in Tasks :
               Direct("select", Args(0, 0, 0, 0, t), select_task_from_list(t, containers, hits, click))

click_execution_button_step ==
    \E resolving \in SUBSET (1..3), click \in ClickResults :
        \/ Inside("exec", click_execution_button(resolving, click))
        \/ Direct("exec", NoArgs, click_execution_button(resolving, click))

click_confirm_button_step ==
    \E resolving \in SUBSET (1..2), click \in ClickResults :
        \/ Inside("confirm", click_confirm_button(resolving, click))
        \/ Direct("confirm", NoArgs, click_confirm_button(resolving, click))

wait_for_ready_step ==
    \E until \in UntilOutcomes : Direct("ready", NoArgs, wait_for_ready(until))

click_task_icon_for_config_step ==
    \E resolving \in SUBSET (1..7), click \in ClickResults :
        \/ Inside("icon", click_task_icon_for_config(resolving, click))
        \/ Direct("icon", NoArgs, click_task_icon_for_config(resolving, click))

click_continue_button_step ==
    \E container \in BOOLEAN, buttons \in ButtonLists :
        \/ Inside("continue", click_continue_button(container, buttons))
        \/ Direct("continue", NoArgs, click_continue_button(container, buttons))

set_speed_value_step ==
    \E field \in BOOLEAN, typing \in TypingOutcomes :
        \/ Inside("set_speed", set_speed_value(Script(op, args)[pc].v, field, typing))
        \/ \E s \in Speeds :
               Direct("set_speed", Args(s, 0, 0, 0, ""), set_speed_value(s, field, typing))

set_force_value_step ==
    \E field \in BOOLEAN, typing \in TypingOutcomes :
        \/ Inside("set_force", set_force_value(Script(op, args)[pc].v, field, typing))
        \/ \E f \in Forces :
               Direct("set_force", Args(0, f, 0, 0, ""), set_force_value(f, field, typing))

set_load_value_step ==
    \E field \in BOOLEAN, typing \in TypingOutcomes :
        \/ Inside("set_load", set_load_value(Script(op, args)[pc].v, field, typing))
        \/ \E l \in Loads :
               Direct("set_load", Args(0, 0, l, 0, ""), set_load_value(l, field, typing))

\* wait_for_task_completion called on its own: the loop starts at i = 0
wait_for_task_completion ==
    \E t \in 0..MaxTimeout : Begin("wait", Args(0, 0, 0, t, ""))

\* one iteration of the loop of wait_for_task_completion, reading obs
PollStep(obs) ==
    /\ At("wait")
    /\ polls < PollLimit(Script(op, args)[pc].v)
    /\ IF PollCompletes(obs)
       THEN RunStep(op, args, pc, log, TRUE, Outcome("True", "complete", polls + 1, "-", TRUE))
       ELSE /\ polls' = polls + 1
            /\ touched' = TRUE
            /\ UNCHANGED <<op, pc, args, log, last, result, lastShape, missed>>
            /\ UNCHANGED netVars

\* one iteration of the loop of wait_for_task_completion
wait_for_task_completion_poll ==
    \E obs \in Observations : PollStep(obs) /\ UNCHANGED seen

\* the same iteration, with what it read kept in seen
wait_for_task_completion_observed ==
    \E obs \in Observations : PollStep(obs) /\ seen' = obs

\* the loop of wait_for_task_completion ran out: return False
wait_for_task_completion_timeout ==
    /\ At("wait")
    /\ polls = PollLimit(Script(op, args)[pc].v)
    /\ RunStep(op, args, pc, log, touched, Outcome("False", "timeout", polls, "-", FALSE))
    /\ UNCHANGED seen

(***************************************************************************)
(* Network Readiness Checker                                               *)
(***************************************************************************)

\* characters of the texts the inspection command prints
Chars == {1, 2}

\* config.local_ip, the expected address, as a text over Chars
LocalIp == <<1, 2>>

Texts == UNION { [1..n -> Chars] : n \in 0..MaxOut }

\* needle occurs in text at position i or later
RECURSIVE OccursFrom(_, _, _)
OccursFrom(i, needle, text) ==
    IF i + Len(needle) - 1 > Len(text) THEN FALSE
    ELSE IF SubSeq(text, i, i + Len(needle) - 1) = needle THEN TRUE
    ELSE OccursFrom(i + 1, needle, text)

\* Python's `needle in text` on strings
Contains(needle, text) == OccursFrom(1, needle, text)

\* how subprocess.run ends: the command exits with a code and an output, or
\* TimeoutExpired, or another SubprocessError, or an OSError because the
\* command could not be started
Cmd(kind, rc, out) == [kind |-> kind, rc |-> rc, out |-> out]

NoCmd == Cmd("none", 0, <<>>)

Failures == { Cmd(k, 0, <<>>) : k \in {"timeout", "suberror", "oserror"} }

\* outcomes of `ip addr show <interface>` when the interface prints text
ShowOutcomes(text) ==
    {Cmd("exit", 0, text)} \cup { Cmd("exit", 1, t) : t \in Texts } \cup Failures

\* outcomes of `sudo ip addr add` and of `ping`
ExitOutcomes == { Cmd("exit", rc, <<>>) : rc \in {0, 1, 2} } \cup Failures

\* the check without its test of the exit code
check_network_configured_IgnoresExit(cmd) ==
    CASE cmd.kind = "exit" -> (IF Contains(LocalIp, cmd.out) THEN "True" ELSE "False")
      [] cmd.kind \in {"timeout", "suberror"} -> "False"
      [] OTHER -> "raised"

check_network_configured_result(cmd) ==
    CASE cmd.kind = "exit" ->
             IF cmd.rc = 0
             THEN (IF Contains(LocalIp, cmd.out) THEN "True" ELSE "False")
             ELSE "False"
      [] cmd.kind \in {"timeout", "suberror"} -> "False"
      [] OTHER -> "raised"

\* configure_network that adds the address although the check found it
IssuesAdd_Always(check) == TRUE

\* configure_network goes on to the add command
IssuesAdd(check) == check = "False"

\* configure_network that takes every exit of the add command for success
configure_network_IgnoresExit(add) ==
    CASE add.kind = "exit" -> "True"
      [] OTHER -> "False"

\* what configure_network returns once its add command ended
configure_network_result(add) ==
    CASE add.kind = "exit" -> (IF add.rc = 0 THEN "True" ELSE "False")
      [] OTHER -> "False"

test_robot_connectivity_result(ping) ==
    CASE ping.kind = "exit" -> (IF ping.rc = 0 THEN "True" ELSE "False")
      [] OTHER -> "False"

check_network_configured ==
    \E cmd \in ShowOutcomes(iface) :
        /\ lastCall' = "check_network_configured"
        /\ lastCmd' = cmd
        /\ lastCheck' = "none"
        /\ lastAdd' = NoCmd
        /\ runs' = 1
        /\ netRet' = check_network_configured_result(cmd)
        /\ UNCHANGED <<iface, addCount>>
        /\ UNCHANGED uiVars

configure_network ==
    \E cmd \in ShowOutcomes(iface) :
        LET check == check_network_configured_result(cmd) IN
        /\ lastCall' = "configure_network"
        /\ lastCmd' = cmd
        /\ lastCheck' = check
        /\ IF check = "raised"
           THEN /\ netRet' = "raised"
                /\ lastAdd' = NoCmd
                /\ runs' = 1
                /\ UNCHANGED <<iface, addCount>>
           ELSE IF IssuesAdd(check)
           THEN /\ addCount < MaxAdd
                /\ addCount' = addCount + 1
                /\ runs' = 2
                /\ \E add \in ExitOutcomes :
                       /\ lastAdd' = add
                       /\ netRet' = configure_network_result(add)
                       /\ IF add.kind = "exit" /\ add.rc = 0
                          THEN iface' \in { t \in Texts : Contains(LocalIp, t) }
                          ELSE iface' = iface
           ELSE /\ netRet' = "True"
                /\ lastAdd' = NoCmd
                /\ runs' = 1
                /\ UNCHANGED <<iface, addCount>>
        /\ UNCHANGED uiVars

test_robot_connectivity ==
    \E ping \in ExitOutcomes :
        /\ lastCall' = "test_robot_connectivity"
        /\ lastCmd' = ping
        /\ lastCheck' = "none"
        /\ lastAdd' = NoCmd
        /\ runs' = 1
        /\ netRet' = test_robot_connectivity_result(ping)
        /\ UNCHANGED <<iface, addCount>>
        /\ UNCHANGED uiVars

(***************************************************************************)
(* Specifications                                                          *)
(***************************************************************************)

\* the driver right after construction, no call made yet
UiInit ==
    /\ op = "none"
    /\ pc = 0
    /\ args = NoArgs
    /\ polls = 0
    /\ log = <<>>
    /\ last = NoStep
    /\ touched = FALSE
    /\ result = "none"
    /\ lastShape = [o \in {"gripper_open", "gripper_close"} |-> <<>>]
    /\ seen = NoObs
    /\ missed = FALSE

\* the checker right after construction, no command issued yet
NetStart ==
    /\ addCount = 0
    /\ lastCall = "none"
    /\ lastCmd = NoCmd
    /\ lastCheck = "none"
    /\ lastAdd = NoCmd
    /\ runs = 0
    /\ netRet = "none"

Init ==
    /\ UiInit
    /\ NetStart
    /\ iface = <<>>

\* the checker on a host whose interface prints any text
NetInit ==
    /\ UiInit
    /\ NetStart
    /\ iface \in Texts

Next ==
    \/ gripper_open
    \/ gripper_close
    \/ configure_gripper_open
    \/ configure_gripper_close
    \/ select_task_from_list_step
    \/ click_execution_button_step
    \/ click_confirm_button_step
    \/ wait_for_ready_step
    \/ click_task_icon_for_config_step
    \/ click_continue_button_step
    \/ set_speed_value_step
    \/ set_force_value_step
    \/ set_load_value_step
    \/ wait_for_task_completion
    \/ wait_for_task_completion_poll
    \/ wait_for_task_completion_timeout

Spec == Init /\ [][Next]_vars

NetNext ==
    \/ check_network_configured
    \/ configure_network
    \/ test_robot_connectivity

NetSpec == NetInit /\ [][NetNext]_vars

\* wait_for_task_completion called on its own, every poll observed; the
\* calling thread keeps running its loop until the call returns
WaitNext ==
    \/ wait_for_task_completion
    \/ wait_for_task_completion_observed
    \/ wait_for_task_completion_timeout

WaitSpec ==
    /\ Init
    /\ [][WaitNext]_vars
    /\ WF_vars(wait_for_task_completion_observed)
    /\ WF_vars(wait_for_task_completion_timeout)

(***************************************************************************)
(* Properties                                                              *)
(***************************************************************************)

SpeedInRange(s) == 10 <= s /\ s <= 100

ForceInRange(f) == 20 <= f /\ f <= 100

LoadInRange(l) == 10 <= l /\ l <= 1000

\* the call has returned to its caller (with a value or an exception)
Returned == op # "none" /\ pc = 0

\* C1: configure_gripper_close with speed, force or load outside its range
\* returns False at once: no wait, no task selection, no other UI interaction
\* happens in that call.
C1_CloseFailsFast ==
    (/\ op = "configure_gripper_close"
     /\ ~(SpeedInRange(args.speed) /\ ForceInRange(args.force) /\ LoadInRange(args.load)))
    => (/\ pc = 0
        /\ result = "False"
        /\ log = <<>>
        /\ polls = 0
        /\ last = NoStep
        /\ ~touched)

C1_Witness ==
    /\ op = "configure_gripper_close"
    /\ args.speed = 100
    /\ args.force = 150
    /\ args.load = 10
    /\ result = "False"

\* C2: configure_gripper_open with a speed outside [10,100] returns False
\* without having attempted the completion wait, task selection, the opening
\* of the configuration dialog or a Continue click.
C2_OpenValidatesFirst ==
    (/\ op = "configure_gripper_open"
     /\ ~SpeedInRange(args.speed)
     /\ Returned)
    => (/\ result = "False"
        /\ log = <<>>
        /\ ~touched)

\* C3: the validation accepts exactly the values in the inclusive ranges:
\* configure_gripper_close goes past its validation iff speed is in [10,100],
\* force in [20,100] and load in [10,1000], and set_speed_value rejects for
\* range iff the speed is outside [10,100].
C3_RangesInclusive ==
    /\ (op = "configure_gripper_close" /\ Returned)
       => ((log # <<>>) <=> (/\ SpeedInRange(args.speed)
                             /\ ForceInRange(args.force)
                             /\ LoadInRange(args.load)))
    /\ last.k = "set_speed"
       => ((last.why = "range") <=> ~SpeedInRange(log[Len(log)].v))

C3_Witness ==
    /\ op = "configure_gripper_close"
    /\ args.speed = 10
    /\ args.force = 100
    /\ args.load = 1000
    /\ last.k = "set_speed"
    /\ last.why = "typed"

\* the expected address occurs in text out
AddressIn(out) ==
    \E i \in 1..Len(out) :
        /\ i + Len(LocalIp) - 1 <= Len(out)
        /\ \A j \in 1..Len(LocalIp) : out[i + j - 1] = LocalIp[j]

\* C4: check_network_configured returns True iff the inspection command exits
\* with code 0 and the expected address occurs in its output; it returns False
\* on a non-zero exit code, on an absent address and on a timeout.
C4_CheckConfigured ==
    lastCall = "check_network_configured"
    => (/\ (netRet = "True")
               <=> (lastCmd.kind = "exit" /\ lastCmd.rc = 0 /\ AddressIn(lastCmd.out))
        /\ (lastCmd.kind = "exit" /\ lastCmd.rc # 0) => netRet = "False"
        /\ (lastCmd.kind = "exit" /\ ~AddressIn(lastCmd.out)) => netRet = "False"
        /\ lastCmd.kind = "timeout" => netRet = "False")

C4_Witness ==
    /\ lastCall = "check_network_configured"
    /\ netRet = "True"
    /\ Len(lastCmd.out) > Len(LocalIp)

\* C5: a configure_network call that finds the network configured returns True
\* and issues no add command, however often it is called.
C5_ConfigureIdempotent ==
    [][(lastCall' = "configure_network" /\ lastCheck' = "True")
         => (netRet' = "True" /\ addCount' = addCount /\ iface' = iface)]_vars

C5_Witness ==
    /\ lastCall = "configure_network"
    /\ lastCheck = "True"
    /\ netRet = "True"
    /\ addCount = 1

\* C6: check_network_configured, configure_network and test_robot_connectivity
\* return a boolean whatever the external command does, and never raise.
C6_NoExceptionCrosses ==
    lastCall # "none" => netRet \in {"True", "False"}

\* C7: every public operation of the driver, composite or sub-step, returns a
\* boolean on every path and never lets an exception through.
C7_AlwaysBoolean ==
    Returned => result \in {"True", "False"}

\* C8: gripper_open runs wait, select 'Gripper_open', execution trigger,
\* confirm, completion poll, in this order, and returns True only after the
\* final poll reported completion.
C8_GripperOpenOrder ==
    (op = "gripper_open" /\ result = "True")
    => (/\ Kinds(log) = <<"wait", "select", "exec", "confirm", "wait">>
        /\ log[2].task = "Gripper_open"
        /\ log[Len(log)].ret = "True")

\* C9: a successful gripper_close and a successful gripper_open run the same
\* sequence of sub-steps: same kinds, same order, same count.
C9_SameShape ==
    (lastShape["gripper_open"] # <<>> /\ lastShape["gripper_close"] # <<>>)
    => lastShape["gripper_open"] = lastShape["gripper_close"]

\* position i of the log is the leading best-effort wait
LeadingWait(i) == i = 1 /\ log[1].k = "wait" /\ Len(Script(op, args)) > 1 /\ op # "gripper_open"

\* C10: in a composite operation the sub-steps run in script order, none
\* twice; a sub-step other than the leading wait that reports failure is the
\* last one of the call, which returns False; the call returns True only if
\* every such sub-step of the script succeeded.
C10_AbortOnFirstFailure ==
    op \in Composites
    => (/\ Len(log) <= Len(Script(op, args))
        /\ \A i \in 1..Len(log) :
               /\ log[i].k = Script(op, args)[i].k
               /\ log[i].task = Script(op, args)[i].task
               /\ log[i].v = Script(op, args)[i].v
               /\ (log[i].ret # "True" /\ ~LeadingWait(i))
                      => (i = Len(log) /\ pc = 0 /\ result = "False" /\ polls = 0)
        /\ result = "True"
               => (/\ Len(log) = Len(Script(op, args))
                   /\ \A i \in 1..Len(log) : LeadingWait(i) \/ log[i].ret = "True"))

C10_Witness ==
    /\ op = "configure_gripper_close"
    /\ result = "False"
    /\ Len(log) = 7
    /\ log[7].k = "set_force"
    /\ log[7].ret = "False"
    /\ log[1].ret = "False"

\* class values and visible texts of the trigger that show a running task: the
\* class is read as it is, the text whatever its case
StopClasses == {"btn stop"}

StopTexts == {"Stop", "STOP"}

\* the poll saw the Ready text and a resolved trigger that shows no stop
ObsDone(o) ==
    /\ o.ready
    /\ o.trig # {}
    /\ o.cls \notin StopClasses
    /\ o.txt \notin StopTexts

\* this step is one poll of a wait_for_task_completion call
PollTaken ==
    /\ op = "wait"
    /\ pc = 1
    /\ \/ polls' = polls + 1
       \/ pc' = 0 /\ last'.why = "complete"

\* C11: wait_for_task_completion returns True at the first poll that sees the
\* Ready text together with a trigger whose class and text show no stop, and
\* goes on polling otherwise; it returns False only once all its polls are used
\* up and none of them saw both.
C11_FirstCompletePoll ==
    [][/\ PollTaken
          => /\ ObsDone(seen') <=> (pc' = 0 /\ result' = "True" /\ last'.n = polls + 1)
             /\ ~ObsDone(seen') => (pc' = 1 /\ result' = "none")
       /\ (op = "wait" /\ pc = 1 /\ pc' = 0 /\ result' = "False")
          => /\ polls = 2 * args.timeout
             /\ polls > 0 => ~ObsDone(seen)]_vars

C11_Witness ==
    /\ op = "wait"
    /\ result = "False"
    /\ args.timeout = 2
    /\ last.n = 4
    /\ seen.ready
    /\ seen.trig = {1, 2}
    /\ seen.cls = "btn stop"

\* C19: wait_for_task_completion(timeout=t) makes at most 2*t polls whatever
\* they read and then returns; it returns False exactly when all 2*t polls are
\* used up; with t = 0 it makes no poll and returns False.
C19_WaitBounded ==
    /\ [](op = "wait"
          => /\ polls <= 2 * args.timeout
             /\ Returned => /\ result \in {"True", "False"}
                            /\ last.n <= 2 * args.timeout
                            /\ result = "False" <=> last.why = "timeout"
                            /\ result = "False" => last.n = 2 * args.timeout
             /\ args.timeout = 0 => /\ ~touched
                                    /\ seen = NoObs
                                    /\ Returned => result = "False")
    /\ (op = "wait" /\ pc = 1) ~> (op = "wait" /\ pc = 0)

C19_Witness ==
    /\ op = "wait"
    /\ args.timeout = 0
    /\ Returned
    /\ result = "False"

\* C20: a True result of wait_for_task_completion comes from a poll that saw
\* the Ready text and a resolved trigger without stop in class or text; a poll
\* in which no trigger locator resolved never ends the call with True.
C20_TriggerResolved ==
    (op = "wait" /\ Returned /\ result = "True")
    => (/\ seen.ready
        /\ seen.trig \cap {1, 2} # {}
        /\ seen.cls # "btn stop"
        /\ seen.txt \notin {"Stop", "STOP"})

C20_Witness ==
    /\ op = "wait"
    /\ Returned
    /\ result = "True"
    /\ seen.trig = {2}
    /\ last.n = 3

\* C12: a configure_network call that finds the network not configured issues
\* the add command once and nothing after it; it returns True iff that command
\* exits with code 0, and False on a non-zero exit, a timeout or another error.
C12_AddOnce ==
    [][(lastCall' = "configure_network" /\ lastCheck' = "False")
         => (/\ addCount' = addCount + 1
             /\ runs' = 2
             /\ lastAdd' # NoCmd
             /\ netRet' \in {"True", "False"}
             /\ netRet' = "True" <=> (lastAdd'.kind = "exit" /\ lastAdd'.rc = 0)
             /\ iface' # iface => netRet' = "True")]_vars

C12_Witness ==
    /\ lastCall = "configure_network"
    /\ lastCheck = "False"
    /\ lastAdd.kind = "exit"
    /\ lastAdd.rc = 2
    /\ netRet = "False"
    /\ addCount = 2

\* C13: a successful configure_gripper_close ran, after the task selection and
\* the opening of the dialog: Continue, set speed, Continue, set force,
\* Continue, set load, Continue, each field set once with its argument, four
\* Continue advances, the fourth one last.
C13_CloseSequence ==
    (op = "configure_gripper_close" /\ result = "True")
    => (/\ Kinds(log) = << "wait", "select", "icon", "continue", "set_speed", "continue",
                           "set_force", "continue", "set_load", "continue" >>
        /\ log[2].task = "Gripper_close"
        /\ log[5].v = args.speed
        /\ log[7].v = args.force
        /\ log[9].v = args.load
        /\ \A i \in 2..10 : log[i].ret = "True"
        /\ Cardinality({ i \in 1..Len(log) : log[i].k = "continue" }) = 4)

C13_Witness ==
    /\ op = "configure_gripper_close"
    /\ result = "True"
    /\ args.speed = 100
    /\ args.force = 20
    /\ args.load = 10

OpenOrder == << "wait", "select", "icon", "continue", "set_speed", "continue" >>

\* C14: configure_gripper_open runs wait, select 'Gripper_open', open dialog,
\* Continue, set speed, Continue, in this order; the speed is set only after
\* the dialog was opened and advanced once; True is returned only after the
\* second Continue succeeded.
C14_OpenSequence ==
    op = "configure_gripper_open"
    => (/\ Len(log) <= 6
        /\ \A i \in 1..Len(log) :
               /\ log[i].k = OpenOrder[i]
               /\ log[i].k = "select" => log[i].task = "Gripper_open"
               /\ log[i].k = "set_speed"
                      => (/\ log[i].v = args.speed
                          /\ log[3].k = "icon" /\ log[3].ret = "True"
                          /\ log[4].k = "continue" /\ log[4].ret = "True")
        /\ result = "True"
               => (/\ Len(log) = 6
                   /\ log[5].ret = "True"
                   /\ log[6].ret = "True"))

C14_Witness ==
    /\ op = "configure_gripper_open"
    /\ result = "True"
    /\ args.speed = 10
    /\ last.k = "continue"

LeadOps == {"gripper_close", "configure_gripper_open", "configure_gripper_close"}

ScriptLength ==
    [o \in LeadOps |-> CASE o = "gripper_close" -> 5
                         [] o = "configure_gripper_open" -> 6
                         [] OTHER -> 10]

\* C15: in gripper_close, configure_gripper_open and configure_gripper_close
\* the first sub-step is wait_for_task_completion(timeout=10); whatever it
\* returns the call goes on to task selection, and the result of the call is
\* decided by the sub-steps after it alone.
C15_LeadingWaitIgnored ==
    (op \in LeadOps /\ log # <<>>)
    => (/\ log[1].k = "wait"
        /\ log[1].v = 10
        /\ Len(log) = 1 => (pc = 2 /\ result = "none")
        /\ Len(log) >= 2 => log[2].k = "select"
        /\ Returned
               => (/\ result = "True"
                          <=> (/\ Len(log) = ScriptLength[op]
                               /\ \A i \in 2..Len(log) : log[i].ret = "True")
                   /\ result = "False"
                          <=> (\E i \in 2..Len(log) : log[i].ret # "True")))

C15_Witness ==
    /\ op = "gripper_close"
    /\ result = "True"
    /\ log[1].ret = "False"

\* the button passes the tests click_continue_button makes before it clicks
Qualifies(b) ==
    /\ b.text \in {"Continue", " CONTINUE "}
    /\ b.displayed
    /\ b.enabled

\* C16: click_continue_button clicks only buttons whose text contains
\* 'continue' in any case and that are displayed and enabled; a script click
\* follows a failed direct click on the same button only; no click follows a
\* successful one; the call returns True iff a click succeeded, and False
\* without any click when the container is missing.
C16_ContinueClicks ==
    last.k = "continue"
    => LET t == last.tries
           ret == log[Len(log)].ret
       IN  /\ \A j \in 1..Len(t) :
                  /\ t[j].how \in {"direct", "js"}
                  /\ Qualifies(t[j].button)
                  /\ t[j].how = "js"
                         => (/\ j > 1
                             /\ t[j - 1].how = "direct"
                             /\ t[j - 1].idx = t[j].idx
                             /\ ~t[j - 1].ok)
                  /\ t[j].ok => j = Len(t)
           /\ ret \in {"True", "False"}
           /\ ret = "True" <=> (\E j \in 1..Len(t) : t[j].ok)
           /\ last.why = "nocontainer" => (ret = "False" /\ t = <<>>)

C16_Witness ==
    /\ last.k = "continue"
    /\ Len(last.tries) = 4
    /\ last.tries[4].how = "js"
    /\ last.tries[4].ok
    /\ last.tries[4].button.text = " CONTINUE "

\* C17: inside the resolved container select_task_from_list looks for the
\* exact-text locator first and for the contains-text locator only after the
\* first did not match; the first match is clicked and ends the call with
\* True, nothing is tried after it; False is returned only when the container
\* is not resolved or neither locator matched.
C17_SelectInOrder ==
    last.k = "select"
    => LET t == last.tries
           ret == log[Len(log)].ret
       IN  /\ ret \in {"True", "False"}
           /\ last.why = "nocontainer" => (ret = "False" /\ t = <<>>)
           /\ last.why # "nocontainer"
                  => (/\ Len(t) >= 1
                      /\ t[1].how = "find"
                      /\ t[1].idx = 1
                      /\ \A j \in 1..Len(t) :
                             /\ t[j].idx \in 1..2
                             /\ (t[j].how = "find" /\ ~t[j].ok /\ j < Len(t))
                                    => (t[j + 1].how = "find" /\ t[j + 1].idx = t[j].idx + 1)
                             /\ (t[j].how = "find" /\ t[j].ok)
                                    => (/\ j + 1 = Len(t)
                                        /\ t[j + 1].how = "robust"
                                        /\ t[j + 1].idx = t[j].idx)
                             /\ t[j].how = "robust" => j = Len(t)
                      /\ ret = "True" <=> t[Len(t)].how = "robust"
                      /\ ret = "False"
                             => (/\ Len(t) = 2
                                 /\ \A j \in 1..2 : t[j].how = "find" /\ ~t[j].ok))

C17_Witness ==
    /\ last.k = "select"
    /\ log[Len(log)].ret = "True"
    /\ Len(last.tries) = 3
    /\ last.tries[3].idx = 2

\* C18: in configure_gripper_open and configure_gripper_close every value that
\* reaches the typing of the speed, force or load field lies in the field's
\* range; a speed outside [10,100] is turned down before the field is looked
\* up.
C18_TypedInRange ==
    op \in {"configure_gripper_open", "configure_gripper_close"}
    => (/\ \A i \in 1..Len(log) :
               /\ (log[i].k = "set_speed" /\ ~SpeedInRange(log[i].v))
                      => (log[i].ret = "False" /\ i = Len(log) /\ last.why = "range")
               /\ log[i].k = "set_force" => ForceInRange(log[i].v)
               /\ log[i].k = "set_load" => LoadInRange(log[i].v)
        /\ (last.k = "set_speed" /\ last.why = "typed") => SpeedInRange(last.n)
        /\ (last.k = "set_force" /\ last.why = "typed") => ForceInRange(last.n)
        /\ (last.k = "set_load" /\ last.why = "typed") => LoadInRange(last.n))

C18_Witness ==
    /\ op = "configure_gripper_close"
    /\ last.k = "set_load"
    /\ last.why = "typed"
    /\ last.n = 1000
    /\ log[7].k = "set_force"
    /\ log[7].v = 100

ClickSteps == {"select", "exec", "confirm", "icon"}

\* C21: select_task_from_list, click_execution_button, click_confirm_button
\* and click_task_icon_for_config return True exactly when their element was
\* resolved and click_element_robust was called on it and returned, whatever
\* it returned: a robust click that reported False still gives True, and the
\* composite operation goes on to its next sub-step.
C21_ClickResultIgnored ==
    last.k \in ClickSteps
    => LET ret == log[Len(log)].ret IN
       /\ ret \in {"True", "False"}
       /\ last.click \in {"True", "False", "-"}
       /\ last.click # "-" <=> last.why = "clicked"
       /\ ret = "True" <=> last.click # "-"
       /\ last.click = "False" => (ret = "True" /\ missed)
       /\ (last.click = "False" /\ op \in Composites)
              => (pc = Len(log) + 1 /\ result = "none")
       /\ last.k = "select"
              => \A j \in 1..Len(last.tries) :
                     last.tries[j].how = "robust" => (last.tries[j].ok <=> last.click = "True")

\* gripper_open has returned True although one of its robust clicks reported
\* failure
C21_Witness ==
    /\ op = "gripper_open"
    /\ result = "True"
    /\ missed

====
